---- MODULE Spec2Model ----
(***************************************************************************)
(* Dispatch / registry / key-rotation retry wrapper of the mech tools      *)
(* coinbase_commerce, coinbase_commerce_request, coingecko_api,            *)
(* irys_network and irys_network_tool.                                     *)
(*                                                                         *)
(* One top-level invocation of a module's decorated run function is        *)
(* modelled: wrapper reads the credential pool and its retry budget, and   *)
(* every execute() frame makes one attempt of run and classifies its       *)
(* outcome.  What a handler or the storage client constructor does when it *)
(* is called (return a text, raise an error with or without status_code)   *)
(* is the environment's choice, drawn afresh on every attempt.             *)
(*                                                                         *)
(* Spec is one invocation; FairSpec is Spec with the fairness of a         *)
(* synchronous call chain; SpecTwo lets the caller invoke run again with   *)
(* the same arguments on the same pool; SpecConc runs a second invocation  *)
(* of the same module interleaved with the first on the same pool.         *)
(***************************************************************************)
EXTENDS Integers, Sequences, FiniteSets, TLC

\* ---------------------------------------------------------------- bounds
\* Largest retry budget a service of the credential pool starts with.
MaxBudget == 2

\* The most invocations made one after the other on the same pool.
MaxInvocations == 2

\* ------------------------------------------------------- program constants
\* The status code with_key_rotation treats as the rate-limit signal.
RATE_LIMIT_STATUS == 429

\* ------------------------------------------------------------ Python values
\* Every Python value that can sit in a response slot or in an operation-name
\* argument has one shape: a type tag, a text (the literal or the f-string
\* template), the name interpolated with !r and the tuple of names
\* interpolated after it.
PyNone == [type |-> "None", s |-> "", arg |-> "", names |-> <<>>]

PyStr(text) == [type |-> "str", s |-> text, arg |-> "", names |-> <<>>]

PyFmt(template, name, keys) ==
    [type |-> "str", s |-> template, arg |-> name, names |-> keys]

\* The reference to the credential pool object passed in as api_keys.
PyPool == [type |-> "KeyChain", s |-> "api_keys", arg |-> "", names |-> <<>>]

\* dict.get(key, default)
Get(d, k, default) == IF k \in DOMAIN d THEN d[k] ELSE default

SeqToSet(q) == {q[i] : i \in 1..Len(q)}

\* ------------------------------------------------------------- the modules
CC   == "coinbase_commerce"
CCR  == "coinbase_commerce_request"
CG   == "coingecko_api"
IRYS == "irys_network"
IRYT == "irys_network_tool"

Modules == {CC, CCR, CG, IRYS, IRYT}

\* coinbase_commerce.AVAILABLE_TOOLS, keys in insertion order
AVAILABLE_TOOLS_CC ==
    << "creates a charge",
       "returns the charge with the order code",
       "returns all charges",
       "creates a new checkout",
       "returns all checkout sessions",
       "returns a specific checkout session",
       "list events",
       "show an event" >>

\* coinbase_commerce_request.AVAILABLE_TOOLS, keys in insertion order
AVAILABLE_TOOLS_CCR ==
    << "create_charge", "get_charge", "get_all_charges",
       "create_new_checkout", "get_all_checkout_sessions",
       "get_checkout_session" >>

\* coingecko_api.AVAILABLE_COMMANDS, keys in insertion order
AVAILABLE_COMMANDS ==
    << "check_api_server_status",
       "coin_price_by_id",
       "coin_price_by_token_address",
       "supported_currencies_list",
       "coins_list",
       "coins_list_with_market_data",
       "coin_data_by_id",
       "coin_tickers_by_id",
       "coin_historical_data_by_id",
       "coin_historical_chart_data_by_id",
       "coin_historical_chart_data_within_time_range_by_id",
       "coin_ohlc_chart_by_id",
       "coin_data_by_token_address",
       "coin_historical_chart_data_by_token_address",
       "coin_historical_chart_data_within_time_range_by_token_address",
       "asset_platforms_list",
       "coins_categories_list",
       "coins_categories_list_with_market_data",
       "exchanges_list_with_data",
       "exchanges_list",
       "exchange_data_by_id",
       "exchange_tickers_by_id",
       "exchange_volume_chart_by_id",
       "derivatives_tickers_list",
       "derivatives_exchanges_list_with_data",
       "derivatives_exchange_data_by_id",
       "derivatives_exchanges_list",
       "nfts_list",
       "nfts_collection_data_by_id",
       "nfts_collection_data_by_contract_address",
       "btc_to_currency_exchange_rates",
       "search_queries",
       "trending_search_list",
       "crypto_global_market_data",
       "global_defi_market_data",
       "public_companies_holdings" >>

\* The commands the if/elif chain of coingecko_api.run has a branch for:
\* every registered command but coins_categories_list_with_market_data.
CoingeckoBranches ==
    SeqToSet(AVAILABLE_COMMANDS) \ {"coins_categories_list_with_market_data"}

\* The commands the if/elif chain of irys_network.run and of
\* irys_network_tool.run has a branch for (these modules have no dict).
IrysCommands ==
    << "address", "upload", "get_balance", "get_price", "fund",
       "get_data", "get_tx_metadata" >>

\* The names a module knows, in the order its code lists them.
Registry(m) ==
    CASE m = CC  -> AVAILABLE_TOOLS_CC
      [] m = CCR -> AVAILABLE_TOOLS_CCR
      [] m = CG  -> AVAILABLE_COMMANDS
      [] OTHER   -> IrysCommands

\* The registry dict of module m as the module is loaded: its entries in
\* insertion order, each a name and the handler bound to it (a handler is
\* identified by the name it is registered under).  The irys modules keep no
\* registry dict.
RegistryOf(m) ==
    IF m \in {CC, CCR, CG}
    THEN [i \in DOMAIN Registry(m) |->
            [name |-> Registry(m)[i], handler |-> Registry(m)[i]]]
    ELSE << >>

\* tuple(tools.keys())
Keys(tools) == [i \in DOMAIN tools |-> tools[i].name]

\* tools[name]
Bound(tools, name) ==
    tools[CHOOSE i \in DOMAIN tools : tools[i].name = name].handler

\* The keyword argument a module reads the operation name from.
OperationKey(m) == IF m \in {CC, IRYS, IRYT} THEN "prompt" ELSE "command"

\* str.lower() on the operation names the callers of this model supply.
Lower(name) ==
    CASE name = "LIST EVENTS" -> "list events"
      [] name = "Show An Event" -> "show an event"
      [] name = "GET_CHARGE" -> "get_charge"
      [] name = "COINS_LIST" -> "coins_list"
      [] name = "ADDRESS" -> "address"
      [] name = "RateLimitError" -> "ratelimiterror"
      [] name = "ValueError" -> "valueerror"
      [] name = "TypeError" -> "typeerror"
      [] name = "AttributeError" -> "attributeerror"
      [] name = "UnboundLocalError" -> "unboundlocalerror"
      [] name = "KeyError" -> "keyerror"
      [] OTHER -> name

\* ---------------------------------------------------------------- errors
\* An exception object: its class name, whether it has a status_code
\* attribute and that attribute's value, and the text str(e) gives.
NoExc == [cls |-> "", has_status_code |-> FALSE, status_code |-> 0, msg |-> ""]

Exc(cls, msg) ==
    [cls |-> cls, has_status_code |-> FALSE, status_code |-> 0, msg |-> msg]

ExcStatus(cls, code, msg) ==
    [cls |-> cls, has_status_code |-> TRUE, status_code |-> code, msg |-> msg]

\* The error classes a handler (or the transport under it) raises here.
ErrClasses == {"RateLimitError", "ValueError"}

\* The errors a handler can raise: of either class, without a status_code
\* attribute, with the rate-limit status, or with another status.
HandlerErrors ==
    {Exc(c, "handler failed") : c \in ErrClasses}
      \cup {ExcStatus(c, code, "handler failed") :
               c \in ErrClasses, code \in {RATE_LIMIT_STATUS, 500}}

\* What one handler call does: return a raw text or raise.
HandlerOutcomes ==
    {[kind |-> "return", text |-> "{\"data\":[]}", exc |-> NoExc]}
      \cup {[kind |-> "raise", text |-> "", exc |-> e] : e \in HandlerErrors}

\* What constructing irys_network's IrysNetworkClient(wallet, devnet) does.
ClientOutcomes ==
    { [kind |-> "return", text |-> "", exc |-> NoExc],
      [kind |-> "raise", text |-> "", exc |-> Exc("ValueError", "bad wallet")] }

\* ------------------------------------------------------------- credentials
\* A credential is an opaque value: the service it belongs to and its index
\* among that service's keys.
NoCred == [service |-> "none", idx |-> 0]

\* The default '' of kwargs.get('api_key', '').
EmptyCred == [service |-> "", idx |-> 0]

\* The key coingecko_api reads from the environment at import time.
coingecko_api_key == [service |-> "COINGECKO_API_KEY", idx |-> 0]

\* ---------------------------------------------------------- credential pool
\* The services a pool can hold keys for.  The first two are the lower-cased
\* names of the error classes, the third is the wallet irys_network reads.
ServiceKeys == {"ratelimiterror", "valueerror", "irys_wallet"}

\* The pool passed as api_keys: per service the retries it grants and the
\* cursor into that service's keys.
Pools ==
    UNION { [retries : [D -> 0..MaxBudget], cursor : [D -> {0}]] :
              D \in SUBSET ServiceKeys }

EmptyPool == [retries |-> << >>, cursor |-> << >>]

\* api_keys.max_retries(): a fresh dict of the retries per service.
max_retries(p) == p.retries

\* The credential current for a service.
PoolCurrent(p, service) == [service |-> service, idx |-> p.cursor[service]]

\* api_keys.get(service, default)
PoolGet(p, service, default) ==
    IF service \in DOMAIN p.cursor THEN PoolCurrent(p, service) ELSE default

\* api_keys.rotate(service): the next key of that service becomes current.
rotate(p, service) ==
    IF service \in DOMAIN p.cursor
    THEN [p EXCEPT !.cursor[service] = @ + 1]
    ELSE p

\* --------------------------------------------------------------- responses
\* error_response(msg): the message and three None slots.
error_response(msg) == << msg, PyNone, PyNone, PyNone >>

\* What one call of a module's undecorated run does: it returns a 4-tuple or
\* raises; handler is the registry key whose handler was called ("" when none
\* was), cred the credential handed to it, client whether the storage client
\* constructor was called.
Returned(value, handler, cred, client) ==
    [kind |-> "return", value |-> value, exc |-> NoExc,
     handler |-> handler, cred |-> cred, client |-> client]

Raised(e, handler, cred, client) ==
    [kind |-> "raise", value |-> << >>, exc |-> e,
     handler |-> handler, cred |-> cred, client |-> client]

\* Variant of AfterHandler that leaves the prompt slot None whatever the
\* module asked for.
AfterHandler_DropsPrompt(h, prompt, handler, cred, client) ==
    IF h.kind = "return"
    THEN Returned(<< PyStr(h.text), PyNone, PyNone, PyNone >>,
                  handler, cred, client)
    ELSE Raised(h.exc, handler, cred, client)

\* Variant of AfterHandler that echoes the name of the handler in the prompt
\* slot whatever the module asked for.
AfterHandler_EchoesName(h, prompt, handler, cred, client) ==
    IF h.kind = "return"
    THEN Returned(<< PyStr(h.text), PyStr(handler), PyNone, PyNone >>,
                  handler, cred, client)
    ELSE Raised(h.exc, handler, cred, client)

\* str(response) of what the handler returned, or the handler's exception.
AfterHandler(h, prompt, handler, cred, client) ==
    IF h.kind = "return"
    THEN Returned(<< PyStr(h.text), prompt, PyNone, PyNone >>, handler, cred, client)
    ELSE Raised(h.exc, handler, cred, client)

\* "An error occurred: {str(e)}" of the try/except around a dispatch chain.
ErrorOccurred(e) == PyFmt("An error occurred: {str(e)}", e.msg, << >>)

\* The same try/except applied to an outcome: a raise becomes a response.
Swallow(r) ==
    IF r.kind = "raise"
    THEN Returned(error_response(ErrorOccurred(r.exc)), r.handler, r.cred, r.client)
    ELSE r

\* coinbase_commerce.run
run_coinbase_commerce(tools, kwargs, p, h, c) ==
    LET tool_name == Get(kwargs, "prompt", PyNone) IN
    IF tool_name.type = "None"
    THEN Raised(Exc("AttributeError",
                    "'NoneType' object has no attribute 'lower'"),
                "", NoCred, FALSE)
    ELSE
      LET lowered == Lower(tool_name.s) IN
      IF lowered \notin SeqToSet(Keys(tools))
      THEN Returned(error_response(
                      PyFmt("Tool {tool_name!r} is not in supported tools: {tuple(AVAILABLE_TOOLS.keys())}.",
                            lowered, Keys(tools))),
                    "", NoCred, FALSE)
      ELSE AfterHandler(h, PyNone, Bound(tools, lowered),
                        Get(kwargs, "cc_api_key", EmptyCred), FALSE)

\* Variant of coinbase_commerce_request.run without the "tool is None" check:
\* whatever name is supplied goes on to the dispatch chain.
run_coinbase_commerce_request_Unchecked(tools, kwargs, p, h, c) ==
    LET tool_name == Get(kwargs, "command", PyNone) IN
    AfterHandler(h, PyNone, IF tool_name.type = "None" THEN "None" ELSE tool_name.s,
                 Get(kwargs, "api_key", EmptyCred), FALSE)

\* coinbase_commerce_request.run
run_coinbase_commerce_request(tools, kwargs, p, h, c) ==
    LET tool_name == Get(kwargs, "command", PyNone) IN
    IF tool_name.type = "None"
    THEN Returned(error_response(PyStr("No tool has been specified.")),
                  "", NoCred, FALSE)
    ELSE IF tool_name.s \notin SeqToSet(Keys(tools))
    THEN Returned(error_response(
                    PyFmt("Tool {tool_name!r} is not in supported tools: {tuple(AVAILABLE_TOOLS.keys())}.",
                          tool_name.s, Keys(tools))),
                  "", NoCred, FALSE)
    ELSE AfterHandler(h, PyNone, tool_name.s,
                      Get(kwargs, "api_key", EmptyCred), FALSE)

\* Variant of coingecko_api.run without the try/except around the dispatch
\* chain: what the chain raises leaves run.
run_coingecko_api_Unguarded(tools, kwargs, p, h, c) ==
    LET command_name == Get(kwargs, "command", PyNone) IN
    IF command_name.type = "None"
    THEN Returned(error_response(PyStr("No command has been specified.")),
                  "", NoCred, FALSE)
    ELSE IF command_name.s \notin SeqToSet(Keys(tools))
    THEN Returned(error_response(
                    PyFmt("Command {command_name!r} is not in supported commands: {tuple(AVAILABLE_COMMANDS.keys())}.",
                          command_name.s, Keys(tools))),
                  "", NoCred, FALSE)
    ELSE IF command_name.s \notin CoingeckoBranches
    THEN Raised(Exc("UnboundLocalError",
                    "cannot access local variable 'response' where it is not associated with a value"),
                "", NoCred, FALSE)
    ELSE AfterHandler(h, PyNone, command_name.s, coingecko_api_key, FALSE)

\* coingecko_api.run
run_coingecko_api(tools, kwargs, p, h, c) ==
    LET command_name == Get(kwargs, "command", PyNone) IN
    IF command_name.type = "None"
    THEN Returned(error_response(PyStr("No command has been specified.")),
                  "", NoCred, FALSE)
    ELSE IF command_name.s \notin SeqToSet(Keys(tools))
    THEN Returned(error_response(
                    PyFmt("Command {command_name!r} is not in supported commands: {tuple(AVAILABLE_COMMANDS.keys())}.",
                          command_name.s, Keys(tools))),
                  "", NoCred, FALSE)
    ELSE IF command_name.s \notin CoingeckoBranches
    THEN Swallow(Raised(Exc("UnboundLocalError",
                            "cannot access local variable 'response' where it is not associated with a value"),
                        "", NoCred, FALSE))
    ELSE Swallow(AfterHandler(h, PyNone, command_name.s,
                              coingecko_api_key, FALSE))

\* The commands of irys_network that go to the gateway with requests.get:
\* get_data(tx_id) and get_tx_metadata(tx_id) are module-level functions that
\* take neither the client nor the wallet.
GatewayCommands == {"get_data", "get_tx_metadata"}

\* The keyword argument irys_network.run converts with int() before it calls
\* the client: bytes for get_price, amount_atomic for fund, "" for the rest.
NumberKey(name) ==
    CASE name = "get_price" -> "bytes"
      [] name = "fund"      -> "amount_atomic"
      [] OTHER              -> ""

\* The texts a caller passes as a number.
NumberInputs == {"1", "x"}

\* int(v) for v = kwargs.get(key, None): None is a TypeError, a text that is
\* not a decimal literal a ValueError ("1" is the literal of NumberInputs).
PyInt(v) ==
    IF v.type = "None"
    THEN [kind |-> "raise",
          exc |-> Exc("TypeError",
                      "int() argument must be a string, a bytes-like object or a real number, not 'NoneType'")]
    ELSE IF v.s = "1"
    THEN [kind |-> "return", exc |-> NoExc]
    ELSE [kind |-> "raise",
          exc |-> Exc("ValueError", "invalid literal for int() with base 10: 'x'")]

\* Variant of irys_network.run that rejects an unknown command before it
\* looks for the wallet.
run_irys_network_NameFirst(kwargs, p, h, c) ==
    LET command_name == Get(kwargs, "prompt", PyNone)
        wallet == PoolGet(p, "irys_wallet", NoCred)
    IN
    IF command_name.type = "None"
    THEN Returned(error_response(PyStr("No command has been specified.")),
                  "", NoCred, FALSE)
    ELSE IF command_name.s \notin SeqToSet(IrysCommands)
    THEN Returned(error_response(
                    PyFmt("Command {command_name!r} is not in supported commands!",
                          command_name.s, << >>)),
                  "", NoCred, FALSE)
    ELSE IF wallet = NoCred
    THEN Returned(error_response(PyStr("No wallet has been specified.")),
                  "", NoCred, FALSE)
    ELSE IF c.kind = "raise"
    THEN Swallow(Raised(c.exc, "", NoCred, TRUE))
    ELSE IF NumberKey(command_name.s) # ""
            /\ PyInt(Get(kwargs, NumberKey(command_name.s), PyNone)).kind = "raise"
    THEN Swallow(Raised(PyInt(Get(kwargs, NumberKey(command_name.s), PyNone)).exc,
                        "", NoCred, TRUE))
    ELSE Swallow(AfterHandler(h, command_name, command_name.s,
                              IF command_name.s \in GatewayCommands
                              THEN NoCred ELSE wallet,
                              TRUE))

\* irys_network.run
run_irys_network(kwargs, p, h, c) ==
    LET command_name == Get(kwargs, "prompt", PyNone)
        wallet == PoolGet(p, "irys_wallet", NoCred)
    IN
    IF command_name.type = "None"
    THEN Returned(error_response(PyStr("No command has been specified.")),
                  "", NoCred, FALSE)
    ELSE IF wallet = NoCred
    THEN Returned(error_response(PyStr("No wallet has been specified.")),
                  "", NoCred, FALSE)
    ELSE IF c.kind = "raise"
    THEN Swallow(Raised(c.exc, "", NoCred, TRUE))
    ELSE IF command_name.s \notin SeqToSet(IrysCommands)
    THEN Returned(error_response(
                    PyFmt("Command {command_name!r} is not in supported commands!",
                          command_name.s, << >>)),
                  "", NoCred, TRUE)
    ELSE IF NumberKey(command_name.s) # ""
            /\ PyInt(Get(kwargs, NumberKey(command_name.s), PyNone)).kind = "raise"
    THEN Swallow(Raised(PyInt(Get(kwargs, NumberKey(command_name.s), PyNone)).exc,
                        "", NoCred, TRUE))
    ELSE Swallow(AfterHandler(h, command_name, command_name.s,
                              IF command_name.s \in GatewayCommands
                              THEN NoCred ELSE wallet,
                              TRUE))

\* Variant of irys_network_tool.run whose client constructor is given what it
\* needs: the constructor's outcome is the environment's, and the command
\* chain is reached when it succeeds.
run_irys_network_tool_BuildsClient(kwargs, p, h, c) ==
    LET command_name == Get(kwargs, "prompt", PyNone) IN
    IF command_name.type = "None"
    THEN Returned(error_response(PyStr("No command has been specified.")),
                  "", NoCred, FALSE)
    ELSE IF c.kind = "raise"
    THEN Swallow(Raised(c.exc, "", NoCred, TRUE))
    ELSE IF command_name.s \notin SeqToSet(IrysCommands)
    THEN Returned(error_response(
                    PyFmt("Command {command_name!r} is not in supported commands!",
                          command_name.s, << >>)),
                  "", NoCred, TRUE)
    ELSE Swallow(AfterHandler(h, PyNone, command_name.s, NoCred, TRUE))

\* irys_network_tool.run: IrysNetworkClient() is called without its wallet.
run_irys_network_tool(kwargs, p, h, c) ==
    LET command_name == Get(kwargs, "prompt", PyNone) IN
    IF command_name.type = "None"
    THEN Returned(error_response(PyStr("No command has been specified.")),
                  "", NoCred, FALSE)
    ELSE Swallow(Raised(Exc("TypeError",
                            "IrysNetworkClient.__init__() missing 1 required positional argument: 'wallet'"),
                        "", NoCred, TRUE))

\* The function with_key_rotation wraps in module m.
func(m, tools, kwargs, p, h, c) ==
    CASE m = CC   -> run_coinbase_commerce(tools, kwargs, p, h, c)
      [] m = CCR  -> run_coinbase_commerce_request(tools, kwargs, p, h, c)
      [] m = CG   -> run_coingecko_api(tools, kwargs, p, h, c)
      [] m = IRYS -> run_irys_network(kwargs, p, h, c)
      [] OTHER    -> run_irys_network_tool(kwargs, p, h, c)

\* ------------------------------------------------------- with_key_rotation
\* Variant of ServiceOf that books every rate-limit error on one fixed
\* service, whatever the type of the error.
ServiceOf_Fixed(e) == "ratelimiterror"

\* service = e.__class__.__name__.lower()
ServiceOf(e) == Lower(e.cls)

\* Variant of IsRateLimit that drops the comparison with 429: any error that
\* carries a status_code counts as a rate-limit signal.
IsRateLimit_AnyStatus(e) == e.has_status_code

\* hasattr(e, "status_code") and e.status_code == 429
IsRateLimit(e) == e.has_status_code /\ e.status_code = RATE_LIMIT_STATUS

\* Variant of NoRetriesLeft with the default 1 for a service without entry.
NoRetriesLeft_DefaultOne(retries, service) == Get(retries, service, 1) <= 0

\* Variant of NoRetriesLeft that only looks whether the service has an entry:
\* an entry that has reached 0 still counts as retries left.
NoRetriesLeft_OnlyMissing(retries, service) == service \notin DOMAIN retries

\* Variant of NoRetriesLeft with the comparison "< 0": one retry too many.
NoRetriesLeft_Strict(retries, service) == Get(retries, service, 0) < 0

\* Variant of NoRetriesLeft with the comparison "<= 1": the last retry is
\* never used.
NoRetriesLeft_OffByOne(retries, service) == Get(retries, service, 0) <= 1

\* retries_left.get(service, 0) <= 0
NoRetriesLeft(retries, service) == Get(retries, service, 0) <= 0

\* Variant of Decrement that takes two retries at once.
Decrement_ByTwo(retries, service) == [retries EXCEPT ![service] = @ - 2]

\* Variant of Decrement that forgets the decrement.
Decrement_Forgotten(retries, service) == retries

\* retries_left[service] -= 1
Decrement(retries, service) == [retries EXCEPT ![service] = @ - 1]

\* Variant of SuccessResponse that returns run's tuple as it is, without the
\* pool.
SuccessResponse_WithoutPool(value) == value

\* return result + (api_keys,)
SuccessResponse(value) == Append(value, PyPool)

\* return str(e), "", None, None, api_keys
SoftFailure(e) == << PyStr(e.msg), PyStr(""), PyNone, PyNone, PyPool >>

\* ------------------------------------------------------------------ inputs
\* A name that differs from a registered one only in letter case.
CaseVariant(m) ==
    CASE m = CC  -> "LIST EVENTS"
      [] m = CCR -> "GET_CHARGE"
      [] m = CG  -> "COINS_LIST"
      [] OTHER   -> "ADDRESS"

\* The operation names a caller supplies to module m: every registered name,
\* a case variant of one and a name that is not registered.
NameInputs(m) == SeqToSet(Registry(m)) \cup {CaseVariant(m), "bogus"}

NoArgs == [k \in {} |-> PyNone]

\* The operation-name part of kwargs: absent, under the key the module reads,
\* or under the key the other modules read.
NameArgs(m) ==
    {NoArgs}
      \cup {OperationKey(m) :> PyStr(n) : n \in NameInputs(m)}
      \cup {(IF OperationKey(m) = "prompt" THEN "command" ELSE "prompt")
               :> PyStr(Registry(m)[1])}

\* The key the caller passes beside the pool: none, or the first key of a
\* service of the pool.
CredArgs(m) ==
    CASE m = CC  -> {NoArgs, "cc_api_key" :> [service |-> "ratelimiterror", idx |-> 0]}
      [] m = CCR -> {NoArgs, "api_key" :> [service |-> "ratelimiterror", idx |-> 0]}
      [] OTHER   -> {NoArgs}

PoolArgs == {NoArgs, "api_keys" :> PyPool}

\* The numbers the caller passes to irys_network: none, or bytes and
\* amount_atomic with the same text.
NumberArgs(m) ==
    IF m = IRYS
    THEN {NoArgs} \cup {("bytes" :> PyStr(t)) @@ ("amount_atomic" :> PyStr(t))
                           : t \in NumberInputs}
    ELSE {NoArgs}

KwargsFor(m) ==
    {n @@ c @@ a @@ b : n \in NameArgs(m), c \in CredArgs(m), a \in PoolArgs,
                        b \in NumberArgs(m)}

\* ------------------------------------------------------------------- state
VARIABLES
    module,        \* the tool module whose run is invoked
    kwargs,        \* the keyword arguments of the invocation
    pool,          \* the credential pool object behind kwargs["api_keys"]
    pc,            \* Init, Attempt, Success, Exhausted, OtherFailure, InitFailed
    retries_left,  \* wrapper's local dict of retries per service
    history,       \* per attempt: what func did, what the handler did and
                   \* the keyword arguments func was called with
    rotations,     \* per api_keys.rotate call: the service, retries_left as it
                   \* is when rotate is called, and the new current key
    result,        \* what the entry point returned or raised
    started,       \* per api_keys.max_retries call: the budget it returned
    prior,         \* per finished earlier invocation: its history and result
    peer,          \* a second invocation running at the same time on the same
                   \* pool: its position, its own retries_left, its rotate calls
    registry       \* the module's AVAILABLE_TOOLS / AVAILABLE_COMMANDS dict

vars ==
    << module, kwargs, pool, pc, retries_left, history, rotations, result,
       started, prior, peer, registry >>

NoResult == [kind |-> "none", value |-> << >>, exc |-> NoExc]

NoCall == [kind |-> "none", text |-> "", exc |-> NoExc]

\* No second invocation is running.
NoPeer == [pc |-> "Idle", retries_left |-> NoArgs, rotations |-> << >>]

Terminal == {"Success", "Exhausted", "OtherFailure", "InitFailed"}

Init ==
    /\ module \in Modules
    /\ kwargs \in KwargsFor(module)
    /\ pool \in (IF "api_keys" \in DOMAIN kwargs THEN Pools ELSE {EmptyPool})
    /\ pc = "Init"
    /\ retries_left = NoArgs
    /\ history = << >>
    /\ rotations = << >>
    /\ result = NoResult
    /\ started = << >>
    /\ prior = << >>
    /\ peer = NoPeer
    /\ registry = RegistryOf(module)

\* Variant of wrapper that reads the budget from the pool on the first
\* invocation only: later invocations go on with what the one before left.
wrapper_ReadsBudgetOnce ==
    /\ pc = "Init"
    /\ IF "api_keys" \in DOMAIN kwargs
       THEN /\ retries_left' = (IF started = << >>
                                THEN max_retries(pool)
                                ELSE retries_left)
            /\ started' = Append(started, retries_left')
            /\ pc' = "Attempt"
            /\ result' = result
       ELSE /\ retries_left' = retries_left
            /\ started' = started
            /\ pc' = "InitFailed"
            /\ result' = [kind |-> "raise", value |-> << >>,
                          exc |-> Exc("KeyError", "'api_keys'")]
    /\ UNCHANGED << module, kwargs, pool, history, rotations, prior, peer, registry >>

\* Variant of wrapper that reads kwargs["api_keys"] inside the try of execute:
\* the KeyError of a missing pool becomes a soft failure response.
wrapper_SoftInit ==
    /\ pc = "Init"
    /\ IF "api_keys" \in DOMAIN kwargs
       THEN /\ retries_left' = max_retries(pool)
            /\ started' = Append(started, max_retries(pool))
            /\ pc' = "Attempt"
            /\ result' = result
       ELSE /\ retries_left' = retries_left
            /\ started' = started
            /\ pc' = "OtherFailure"
            /\ result' = [kind |-> "return",
                          value |-> SoftFailure(Exc("KeyError", "'api_keys'")),
                          exc |-> NoExc]
    /\ UNCHANGED << module, kwargs, pool, history, rotations, prior, peer, registry >>

\* wrapper: api_keys = kwargs["api_keys"]; retries_left = api_keys.max_retries()
wrapper ==
    /\ pc = "Init"
    /\ IF "api_keys" \in DOMAIN kwargs
       THEN /\ retries_left' = max_retries(pool)
            /\ started' = Append(started, max_retries(pool))
            /\ pc' = "Attempt"
            /\ result' = result
       ELSE /\ retries_left' = retries_left
            /\ started' = started
            /\ pc' = "InitFailed"
            /\ result' = [kind |-> "raise", value |-> << >>,
                          exc |-> Exc("KeyError", "'api_keys'")]
    /\ UNCHANGED << module, kwargs, pool, history, rotations, prior, peer, registry >>

\* One attempt: the entry of the history for an outcome r of func when the
\* handler did h; args are the keyword arguments func was called with.
Entry(r, h) ==
    [out |-> r, did |-> IF r.handler = "" THEN NoCall ELSE h, args |-> kwargs]

\* Variant of ExecuteSuccess in which a handler that has run is taken out of
\* the registry.
ExecuteSuccess_UnregistersTool ==
    /\ pc = "Attempt"
    /\ \E h \in HandlerOutcomes, c \in ClientOutcomes :
         LET r == func(module, registry, kwargs, pool, h, c) IN
         /\ r.kind = "return"
         /\ history' = Append(history, Entry(r, h))
         /\ result' = [kind |-> "return", value |-> SuccessResponse(r.value),
                       exc |-> NoExc]
         /\ registry' = SelectSeq(registry,
                                  LAMBDA t : t.handler # r.handler)
    /\ pc' = "Success"
    /\ UNCHANGED << module, kwargs, pool, retries_left, rotations, started,
                    prior, peer >>

\* execute: func returns normally.
ExecuteSuccess ==
    /\ pc = "Attempt"
    /\ \E h \in HandlerOutcomes, c \in ClientOutcomes :
         LET r == func(module, registry, kwargs, pool, h, c) IN
         /\ r.kind = "return"
         /\ history' = Append(history, Entry(r, h))
         /\ result' = [kind |-> "return", value |-> SuccessResponse(r.value),
                       exc |-> NoExc]
    /\ pc' = "Success"
    /\ UNCHANGED << module, kwargs, pool, retries_left, rotations, started, prior, peer, registry >>

\* Variant of ExecuteRateLimited that puts the key rotate made current into
\* the keyword arguments of the next attempt.
ExecuteRateLimited_RewritesKey ==
    /\ pc = "Attempt"
    /\ \E h \in HandlerOutcomes, c \in ClientOutcomes :
         LET r == func(module, registry, kwargs, pool, h, c)
             service == ServiceOf(r.exc)
         IN
         /\ r.kind = "raise"
         /\ IsRateLimit(r.exc)
         /\ ~NoRetriesLeft(retries_left, service)
         /\ history' = Append(history, Entry(r, h))
         /\ retries_left' = Decrement(retries_left, service)
         /\ pool' = rotate(pool, service)
         /\ rotations' = Append(rotations,
                                [service |-> service,
                                 left |-> Decrement(retries_left, service),
                                 current |-> PoolGet(rotate(pool, service),
                                                     service, NoCred)])
         /\ kwargs' = ("api_key" :> PoolGet(rotate(pool, service),
                                            service, NoCred))
                         @@ kwargs
    /\ pc' = "Attempt"
    /\ UNCHANGED << module, result, started, prior, peer, registry >>

\* execute: func raises a rate-limit error and retries are left for its
\* service: decrement, rotate, execute again.
ExecuteRateLimited ==
    /\ pc = "Attempt"
    /\ \E h \in HandlerOutcomes, c \in ClientOutcomes :
         LET r == func(module, registry, kwargs, pool, h, c)
             service == ServiceOf(r.exc)
         IN
         /\ r.kind = "raise"
         /\ IsRateLimit(r.exc)
         /\ ~NoRetriesLeft(retries_left, service)
         /\ history' = Append(history, Entry(r, h))
         /\ retries_left' = Decrement(retries_left, service)
         /\ pool' = rotate(pool, service)
         /\ rotations' = Append(rotations,
                                [service |-> service,
                                 left |-> Decrement(retries_left, service),
                                 current |-> PoolGet(rotate(pool, service),
                                                     service, NoCred)])
    /\ pc' = "Attempt"
    /\ UNCHANGED << module, kwargs, result, started, prior, peer, registry >>

\* Variant of ExecuteExhausted in which the recursive call of execute sits
\* inside the try: the error a retry raises is caught by the frame around it
\* and comes back as a soft failure response.
ExecuteExhausted_CaughtByOuterFrame ==
    /\ pc = "Attempt"
    /\ \E h \in HandlerOutcomes, c \in ClientOutcomes :
         LET r == func(module, registry, kwargs, pool, h, c) IN
         /\ r.kind = "raise"
         /\ IsRateLimit(r.exc)
         /\ NoRetriesLeft(retries_left, ServiceOf(r.exc))
         /\ history' = Append(history, Entry(r, h))
         /\ result' = (IF history = << >>
                       THEN [kind |-> "raise", value |-> << >>, exc |-> r.exc]
                       ELSE [kind |-> "return", value |-> SoftFailure(r.exc),
                             exc |-> NoExc])
    /\ pc' = (IF history = << >> THEN "Exhausted" ELSE "OtherFailure")
    /\ UNCHANGED << module, kwargs, pool, retries_left, rotations, started, prior, peer, registry >>

\* execute: func raises a rate-limit error and no retries are left: raise e.
ExecuteExhausted ==
    /\ pc = "Attempt"
    /\ \E h \in HandlerOutcomes, c \in ClientOutcomes :
         LET r == func(module, registry, kwargs, pool, h, c) IN
         /\ r.kind = "raise"
         /\ IsRateLimit(r.exc)
         /\ NoRetriesLeft(retries_left, ServiceOf(r.exc))
         /\ history' = Append(history, Entry(r, h))
         /\ result' = [kind |-> "raise", value |-> << >>, exc |-> r.exc]
    /\ pc' = "Exhausted"
    /\ UNCHANGED << module, kwargs, pool, retries_left, rotations, started, prior, peer, registry >>

\* execute: func raises any other error: the soft failure response.
ExecuteOtherFailure ==
    /\ pc = "Attempt"
    /\ \E h \in HandlerOutcomes, c \in ClientOutcomes :
         LET r == func(module, registry, kwargs, pool, h, c) IN
         /\ r.kind = "raise"
         /\ ~IsRateLimit(r.exc)
         /\ history' = Append(history, Entry(r, h))
         /\ result' = [kind |-> "return", value |-> SoftFailure(r.exc),
                       exc |-> NoExc]
    /\ pc' = "OtherFailure"
    /\ UNCHANGED << module, kwargs, pool, retries_left, rotations, started, prior, peer, registry >>

Next ==
    \/ wrapper
    \/ ExecuteSuccess
    \/ ExecuteRateLimited
    \/ ExecuteExhausted
    \/ ExecuteOtherFailure

Spec == Init /\ [][Next]_vars

\* ---------------------------------------------- invocations on the same pool
\* The caller calls the decorated run again with the same kwargs, and so with
\* the same pool object: wrapper starts afresh, with a new execute and a new
\* retries_left, while the pool keeps whatever rotate did to it.
Reinvoke ==
    /\ pc \in Terminal
    /\ "api_keys" \in DOMAIN kwargs
    /\ Len(prior) + 1 < MaxInvocations
    /\ prior' = Append(prior, [history |-> history, result |-> result])
    /\ pc' = "Init"
    /\ history' = << >>
    /\ rotations' = << >>
    /\ result' = NoResult
    /\ UNCHANGED << module, kwargs, pool, retries_left, started, peer, registry >>

\* The invocations that are repeated: a pool is supplied, it holds keys for
\* the service of RateLimitError and possibly a wallet, and the name is the
\* first registered one or an unknown one.
InitTwo ==
    /\ Init
    /\ "api_keys" \in DOMAIN kwargs
    /\ DOMAIN pool.retries \subseteq {"ratelimiterror", "irys_wallet"}
    /\ Get(kwargs, OperationKey(module), PyNone)
         \in {PyStr(Registry(module)[1]), PyStr("bogus")}

NextTwo ==
    \/ Next
    \/ Reinvoke

SpecTwo == InitTwo /\ [][NextTwo]_vars

\* ------------------------------------------ two invocations at the same time
\* A second call of the decorated run, with the same kwargs and so the same
\* pool object, runs interleaved with the first.  It has its own wrapper
\* frame, hence its own retries_left, and its own execute frames.

\* wrapper of the second invocation.
PeerWrapper ==
    /\ peer.pc = "Init"
    /\ peer' = [peer EXCEPT !.pc = "Attempt",
                            !.retries_left = max_retries(pool)]
    /\ UNCHANGED << module, kwargs, pool, pc, retries_left, history,
                    rotations, result, started, prior, registry >>

\* Variant of PeerRateLimited in which retries_left is one dict shared by all
\* invocations: the second invocation tests and decrements the first one's.
PeerRateLimited_SharedBudget ==
    /\ peer.pc = "Attempt"
    /\ \E h \in HandlerOutcomes, c \in ClientOutcomes :
         LET r == func(module, registry, kwargs, pool, h, c)
             service == ServiceOf(r.exc)
         IN
         /\ r.kind = "raise"
         /\ IsRateLimit(r.exc)
         /\ ~NoRetriesLeft(retries_left, service)
         /\ retries_left' = Decrement(retries_left, service)
         /\ peer' = [peer EXCEPT
                       !.rotations = Append(@, [service |-> service])]
         /\ pool' = rotate(pool, service)
    /\ UNCHANGED << module, kwargs, pc, history, rotations, result,
                    started, prior, registry >>

\* execute of the second invocation: rate-limit error with retries left.
PeerRateLimited ==
    /\ peer.pc = "Attempt"
    /\ \E h \in HandlerOutcomes, c \in ClientOutcomes :
         LET r == func(module, registry, kwargs, pool, h, c)
             service == ServiceOf(r.exc)
         IN
         /\ r.kind = "raise"
         /\ IsRateLimit(r.exc)
         /\ ~NoRetriesLeft(peer.retries_left, service)
         /\ peer' = [peer EXCEPT
                       !.retries_left = Decrement(@, service),
                       !.rotations = Append(@, [service |-> service])]
         /\ pool' = rotate(pool, service)
    /\ UNCHANGED << module, kwargs, pc, retries_left, history, rotations,
                    result, started, prior, registry >>

\* execute of the second invocation: any attempt that ends it.
PeerFinish ==
    /\ peer.pc = "Attempt"
    /\ \E h \in HandlerOutcomes, c \in ClientOutcomes :
         LET r == func(module, registry, kwargs, pool, h, c) IN
         /\ r.kind = "raise" /\ IsRateLimit(r.exc)
              => NoRetriesLeft(peer.retries_left, ServiceOf(r.exc))
         /\ peer' = [peer EXCEPT
                       !.pc = IF r.kind = "return" THEN "Success"
                              ELSE IF IsRateLimit(r.exc) THEN "Exhausted"
                              ELSE "OtherFailure"]
    /\ UNCHANGED << module, kwargs, pool, pc, retries_left, history,
                    rotations, result, started, prior, registry >>

\* Both invocations are about to start, on a pool that holds keys for the
\* service of RateLimitError.
InitConc ==
    /\ module \in Modules
    /\ kwargs \in KwargsFor(module)
    /\ "api_keys" \in DOMAIN kwargs
    /\ Get(kwargs, OperationKey(module), PyNone) = PyStr(Registry(module)[1])
    /\ pool \in Pools
    /\ DOMAIN pool.retries = {"ratelimiterror"}
    /\ pc = "Init"
    /\ retries_left = NoArgs
    /\ history = << >>
    /\ rotations = << >>
    /\ result = NoResult
    /\ started = << >>
    /\ prior = << >>
    /\ peer = [NoPeer EXCEPT !.pc = "Init"]
    /\ registry = RegistryOf(module)

NextConc ==
    \/ Next
    \/ PeerWrapper
    \/ PeerRateLimited
    \/ PeerFinish

SpecConc == InitConc /\ [][NextConc]_vars

\* ------------------------------------------------------------ one invocation
\* wrapper and execute are one synchronous call chain: once called, the next
\* step of an invocation is taken whenever each handler call returns or
\* raises.
FairSpec == Init /\ [][Next]_vars /\ WF_vars(Next)

\* ============================================================== the claims
\* Vocabulary of the claims, stated on the recorded history and independent
\* of the operators that model the controller.

\* The operation name the caller supplied under the key the module reads.
SuppliedName == Get(kwargs, OperationKey(module), PyNone)

HasPool == "api_keys" \in DOMAIN kwargs

\* x (an outcome of func or of a handler) is a raised rate-limit error.
RaisedRateLimit(x) ==
    x.kind = "raise" /\ x.exc.has_status_code /\ x.exc.status_code = 429

\* The service of a raised error: its class name, lower-cased.
ErrService(x) == Lower(x.exc.cls)

\* The budget the pool granted service s when the invocation started.
InitialBudget(s) == Get(pool.retries, s, 0)

LastAttempt == history[Len(history)]

\* C1: when the handler raises a rate-limit error of one service on attempts
\* 1..k (k > 0) and succeeds on attempt k+1, the invocation returns that
\* success response, rotate has been called exactly k times, each time for
\* that service, and k is at most the service's initial budget.
C1_RotatesUntilHandlerSucceeds ==
    (/\ pc \in Terminal
     /\ Len(history) >= 2
     /\ LastAttempt.did.kind = "return"
     /\ \A i \in 1..(Len(history) - 1) :
          /\ RaisedRateLimit(history[i].did)
          /\ ErrService(history[i].did) = ErrService(history[1].did))
    => (/\ pc = "Success"
        /\ result.kind = "return"
        /\ Len(result.value) = 5
        /\ result.value[1] = PyStr(LastAttempt.did.text)
        /\ result.value[5] = PyPool
        /\ Len(rotations) = Len(history) - 1
        /\ \A j \in 1..Len(rotations) :
             rotations[j].service = ErrService(history[1].did)
        /\ Len(rotations) <= InitialBudget(ErrService(history[1].did)))

C1_Witness ==
    /\ pc = "Success"
    /\ Len(history) = 3
    /\ RaisedRateLimit(history[1].did)
    /\ RaisedRateLimit(history[2].did)
    /\ ErrService(history[1].did) = ErrService(history[2].did)
    /\ LastAttempt.did.kind = "return"
    /\ Len(rotations) = 2

\* C2: when the wrapped run raises a rate-limit error whose service has an
\* initial budget of 0, that attempt is the last one, the same error is
\* raised to the caller, no response is returned, and rotate has never been
\* called for that service (not at all when this is the first attempt).
C2_ZeroBudgetReraises ==
    \A i \in 1..Len(history) :
      (/\ RaisedRateLimit(history[i].out)
       /\ ErrService(history[i].out) \in DOMAIN pool.retries
       /\ pool.retries[ErrService(history[i].out)] = 0)
      => (/\ i = Len(history)
          /\ pc = "Exhausted"
          /\ result = [kind |-> "raise", value |-> << >>,
                       exc |-> history[i].out.exc]
          /\ Len(rotations) = i - 1
          /\ \A j \in 1..Len(rotations) :
               rotations[j].service # ErrService(history[i].out))

C2_Witness ==
    /\ pc = "Exhausted"
    /\ Len(history) = 1
    /\ RaisedRateLimit(history[1].out)
    /\ "ratelimiterror" \in DOMAIN pool.retries
    /\ pool.retries["ratelimiterror"] = 0
    /\ ErrService(history[1].out) = "ratelimiterror"
    /\ rotations = << >>
    /\ result.kind = "raise"

\* C3: when the wrapped run raises a rate-limit error of one service with
\* initial budget N on every attempt, the invocation is still attempting
\* after each of the first N errors, having rotated once per error, and the
\* error number N+1 ends it: N+1 attempts, N rotations, the error raised.
C3_FatalExactlyWhenBudgetSpent ==
    (/\ Len(history) >= 1
     /\ \A i \in 1..Len(history) :
          /\ RaisedRateLimit(history[i].out)
          /\ ErrService(history[i].out) = ErrService(history[1].out))
    => LET N == InitialBudget(ErrService(history[1].out)) IN
       /\ Len(history) <= N + 1
       /\ Len(history) <= N
            => (pc = "Attempt" /\ Len(rotations) = Len(history))
       /\ Len(history) = N + 1
            => (/\ pc = "Exhausted"
                /\ Len(rotations) = N
                /\ result = [kind |-> "raise", value |-> << >>,
                             exc |-> LastAttempt.out.exc])

C3_Witness ==
    /\ pc = "Exhausted"
    /\ Len(history) = 3
    /\ \A i \in 1..3 :
         /\ RaisedRateLimit(history[i].out)
         /\ ErrService(history[i].out) = "valueerror"
    /\ InitialBudget("valueerror") = 2
    /\ Len(rotations) = 2

\* C4: a step in which the wrapped run raises an error that is not a
\* rate-limit signal (no status_code, or a status_code other than 429) ends
\* the invocation with the soft response (str(error), "", None, None, pool)
\* and changes neither the rotations made, nor the retry budget, nor the pool.
C4_OtherErrorIsSoftFailure ==
    [][ (/\ pc = "Attempt"
         /\ Len(history') = Len(history) + 1
         /\ history'[Len(history')].out.kind = "raise"
         /\ ~(/\ history'[Len(history')].out.exc.has_status_code
              /\ history'[Len(history')].out.exc.status_code = 429))
        => (/\ pc' = "OtherFailure"
            /\ result' = [kind |-> "return",
                          value |-> << PyStr(history'[Len(history')].out.exc.msg),
                                       PyStr(""), PyNone, PyNone, PyPool >>,
                          exc |-> NoExc]
            /\ rotations' = rotations
            /\ retries_left' = retries_left
            /\ pool' = pool) ]_vars

C4_Witness ==
    /\ pc = "OtherFailure"
    /\ LastAttempt.out.kind = "raise"
    /\ LastAttempt.out.exc.has_status_code
    /\ LastAttempt.out.exc.status_code = 500
    /\ LastAttempt.out.handler # ""
    /\ rotations = << >>
    /\ retries_left = pool.retries
    /\ result.kind = "return"

\* C5: in every tool module, an exception raised by the handler inside run
\* leaves run as that same exception, status_code included.
C5_HandlerErrorLeavesRun ==
    \A i \in 1..Len(history) :
      history[i].did.kind = "raise"
      => (history[i].out.kind = "raise"
          /\ history[i].out.exc = history[i].did.exc)

\* C6: the attempt that follows a rotation hands its handler the credential
\* that rotation made current in the pool, not the one of the attempt before.
C6_RetryUsesRotatedCredential ==
    \A i \in 1..Len(rotations) :
      (i + 1 <= Len(history) /\ history[i + 1].out.handler # "")
      => (/\ history[i + 1].out.cred = rotations[i].current
          /\ history[i + 1].out.cred # history[i].out.cred)

\* A supplied name the module's lookup does not find: it is no key of the
\* registry (coinbase_commerce looks the name up lower-cased).
UnknownName ==
    /\ SuppliedName.type = "str"
    /\ SuppliedName.s \notin SeqToSet(Registry(module))
    /\ module = CC => Lower(SuppliedName.s) \notin SeqToSet(Registry(module))

\* C7: for every supplied operation name that is not in the module's
\* registry, the invocation returns a response whose text lists exactly the
\* names of that registry, in every tool module.
C7_UnknownNameListsRegistry ==
    (pc \in Terminal /\ HasPool /\ UnknownName)
    => (/\ result.kind = "return"
        /\ SeqToSet(result.value[1].names) = SeqToSet(Registry(module)))

\* The fixed message of a module for a missing operation name.
NoNameMessage(m) ==
    IF m \in {CC, CCR}
    THEN PyStr("No tool has been specified.")
    ELSE PyStr("No command has been specified.")

\* C8: in every tool module, an invocation without the operation-name field
\* returns the module's fixed "no command/tool has been specified" text,
\* whatever the other arguments are.
C8_MissingNameFixedMessage ==
    (pc \in Terminal /\ HasPool /\ SuppliedName.type = "None")
    => (/\ result.kind = "return"
        /\ result.value[1] = NoNameMessage(module))

\* C9: with a credential pool supplied, the entry point raises exactly when
\* the last attempt raised a rate-limit error whose service had no budget
\* left; every other outcome is returned as a response.
C9_RaisesOnlyWhenExhausted ==
    (pc \in Terminal /\ HasPool)
    => (result.kind = "raise"
        <=> (/\ RaisedRateLimit(LastAttempt.out)
             /\ Get(retries_left, ErrService(LastAttempt.out), 0) = 0
             /\ result.exc = LastAttempt.out.exc))

C9_Witness ==
    /\ pc = "OtherFailure"
    /\ HasPool
    /\ Len(history) = 2
    /\ LastAttempt.did.kind = "raise"
    /\ LastAttempt.did.exc.has_status_code
    /\ result.kind = "return"

\* C10: a missing or unknown operation name ends the invocation after one
\* attempt with a returned response: no handler was called, rotate was not
\* called, the retry budget is the initial one and nothing was raised.
C10_UsageErrorNotRetried ==
    (HasPool /\ pc \notin {"Init"} /\ (SuppliedName.type = "None" \/ UnknownName))
    => (/\ pc \in {"Attempt", "Success", "OtherFailure"}
        /\ pc = "Attempt" => history = << >>
        /\ pc # "Attempt"
             => (/\ Len(history) = 1
                 /\ history[1].out.handler = ""
                 /\ history[1].did = NoCall
                 /\ result.kind = "return"
                 /\ Len(result.value) = 5)
        /\ rotations = << >>
        /\ retries_left = pool.retries)

C10_Witness ==
    /\ module = CCR
    /\ pc = "Success"
    /\ UnknownName
    /\ SuppliedName.s = "GET_CHARGE"
    /\ Len(history) = 1
    /\ result.value[1].names = AVAILABLE_TOOLS_CCR

\* A step in which a handler was called and returned normally.
HandlerReturns ==
    /\ pc = "Attempt"
    /\ Len(history') = Len(history) + 1
    /\ history'[Len(history')].did.kind = "return"

\* The success response for a handler result text and a prompt slot.
SuccessTuple(text, prompt) == << PyStr(text), prompt, PyNone, PyNone, PyPool >>

\* C11 as stated: a step in which the handler of a registered operation
\* returns normally ends the invocation with (str(result), None, None, None,
\* pool), in every module, without a rotate call or a budget change.
C11_SuccessPromptAlwaysNone ==
    [][ HandlerReturns
        => (/\ pc' = "Success"
            /\ result' = [kind |-> "return",
                          value |-> SuccessTuple(history'[Len(history')].did.text,
                                                 PyNone),
                          exc |-> NoExc]
            /\ rotations' = rotations
            /\ retries_left' = retries_left
            /\ pool' = pool) ]_vars

\* C11: a step in which the handler of a registered operation returns
\* normally ends the invocation with (str(result), prompt, None, None, pool),
\* where prompt is None in the payment and market-data modules and the
\* operation name in irys_network; the step calls rotate not at all and
\* leaves the retry budget and the pool as they were.
C11_SuccessResponse ==
    [][ HandlerReturns
        => (/\ pc' = "Success"
            /\ result' = [kind |-> "return",
                          value |-> SuccessTuple(history'[Len(history')].did.text,
                                                 IF module = IRYS
                                                 THEN SuppliedName
                                                 ELSE PyNone),
                          exc |-> NoExc]
            /\ rotations' = rotations
            /\ retries_left' = retries_left
            /\ pool' = pool) ]_vars

C11_Witness ==
    /\ module = CCR
    /\ SuppliedName = PyStr("get_all_charges")
    /\ pc = "Success"
    /\ Len(history) = 1
    /\ history[1].did.kind = "return"
    /\ result.value = SuccessTuple("{\"data\":[]}", PyNone)
    /\ rotations = << >>
    /\ retries_left = pool.retries

\* The modules that keep their operations in a registry dict.
RegistryModules == {CC, CCR, CG}

\* C12: in a module with a registry, an invocation that supplies a
\* registered name calls, on every attempt, exactly the handler registered
\* for that name, and when that handler returns the invocation returns its
\* result as the success response: no registered name lacks a dispatch
\* branch.
C12_RegisteredNameDispatches ==
    (/\ module \in RegistryModules
     /\ HasPool
     /\ SuppliedName.type = "str"
     /\ SuppliedName.s \in SeqToSet(Registry(module)))
    => (/\ \A i \in 1..Len(history) :
             /\ history[i].out.handler = SuppliedName.s
             /\ history[i].did # NoCall
        /\ (pc \in Terminal /\ LastAttempt.did.kind = "return")
             => (/\ pc = "Success"
                 /\ result.value[1] = PyStr(LastAttempt.did.text)))

\* C13: every response the wrapped run returns (success, usage error or soft
\* failure) is a tuple of five elements: a string first, None for the
\* transaction and the cost, and the credential pool object last.
C13_ResponseShape ==
    result.kind = "return"
    => (/\ Len(result.value) = 5
        /\ result.value[1].type = "str"
        /\ result.value[3] = PyNone
        /\ result.value[4] = PyNone
        /\ result.value[5] = PyPool)

C13_Witness ==
    /\ module = IRYS
    /\ pc = "Success"
    /\ result.kind = "return"
    /\ LastAttempt.did.kind = "raise"
    /\ result.value[1].s = "An error occurred: {str(e)}"
    /\ Len(result.value) = 5

\* C14: an invocation without an "api_keys" argument ends in Init with a
\* raised error: the wrapped function is not attempted, max_retries and
\* rotate are not called and no response is returned.
C14_NoPoolFailsInInit ==
    (~HasPool /\ pc # "Init")
    => (/\ pc = "InitFailed"
        /\ result.kind = "raise"
        /\ result.exc.cls = "KeyError"
        /\ result.value = << >>
        /\ history = << >>
        /\ started = << >>
        /\ rotations = << >>)

C14_Witness ==
    /\ ~HasPool
    /\ module = CC
    /\ SuppliedName = PyStr("creates a charge")
    /\ pc = "InitFailed"
    /\ result.kind = "raise"
    /\ history = << >>

\* sum(retries.values()): the sum of the budgets of all services.
RECURSIVE SumOver(_, _)
SumOver(retries, services) ==
    IF services = {}
    THEN 0
    ELSE LET service == CHOOSE x \in services : TRUE IN
         retries[service] + SumOver(retries, services \ {service})

TotalBudget == SumOver(pool.retries, DOMAIN pool.retries)

\* C15 as stated: the number of attempts of one invocation never exceeds the
\* sum of the initial budgets of all services.
C15_AttemptsWithinBudgetSum ==
    Len(history) <= TotalBudget

\* C15: the number of attempts of one invocation never exceeds one more than
\* the sum of the initial budgets of all services: the first attempt costs
\* nothing, and each further attempt follows one rotation that consumed one
\* unit of budget, so the rotations never exceed that sum.
C15_AttemptsWithinBudgetSumPlusOne ==
    /\ Len(history) <= 1 + TotalBudget
    /\ Len(rotations) <= TotalBudget
    /\ Len(history) <= Len(rotations) + 1

C15_Witness ==
    /\ pc = "Exhausted"
    /\ TotalBudget >= 3
    /\ Len(history) = 1 + TotalBudget
    /\ Len(rotations) = TotalBudget
    /\ \E i, j \in 1..Len(rotations) : rotations[i].service # rotations[j].service

\* The supplied name differs from a registered name only in letter case.
CaseVariantSupplied ==
    /\ SuppliedName.type = "str"
    /\ SuppliedName.s \notin SeqToSet(Registry(module))
    /\ Lower(SuppliedName.s) \in SeqToSet(Registry(module))

\* C16: in every module with a registry, a supplied name that differs from a
\* registered name only in letter case is not resolved to a handler and is
\* reported as an unknown operation, named as the caller supplied it.
C16_LookupIsCaseSensitive ==
    (module \in RegistryModules /\ HasPool /\ CaseVariantSupplied)
    => (/\ \A i \in 1..Len(history) : history[i].out.handler = ""
        /\ pc \in Terminal
             => (/\ result.kind = "return"
                 /\ result.value[1].arg = SuppliedName.s
                 /\ result.value[1].names = Registry(module)))

\* C17: when an operation succeeds (its handler returned), the prompt slot
\* of the response holds the supplied operation name in irys_network and
\* None in coinbase_commerce, coinbase_commerce_request and coingecko_api.
C17_PromptSlotPerModule ==
    (pc = "Success" /\ LastAttempt.did.kind = "return")
    => (/\ module = IRYS => result.value[2] = SuppliedName
        /\ module \in RegistryModules => result.value[2] = PyNone)

C17_Witness ==
    /\ module = IRYS
    /\ pc = "Success"
    /\ LastAttempt.did.kind = "return"
    /\ SuppliedName = PyStr("get_balance")
    /\ result.value[1] = PyStr(LastAttempt.did.text)
    /\ result.value[2] = PyStr("get_balance")

\* The first of the invocations made on the pool, once it has finished.
FirstInvocation == prior[1]

\* C18: when a first invocation ended with its handler returning, and a
\* later invocation with the same arguments on the same pool has finished
\* with the handler doing on each attempt what it did on that attempt of the
\* first, the later response is the first one, slot for slot, reached after
\* as many attempts: nothing the first invocation left behind changes it.
C18_RepeatedInvocationSameResponse ==
    (/\ prior # << >>
     /\ pc \in Terminal
     /\ FirstInvocation.result.kind = "return"
     /\ FirstInvocation.history[Len(FirstInvocation.history)].did.kind = "return"
     /\ Len(history) <= Len(FirstInvocation.history)
     /\ \A i \in 1..Len(history) :
          history[i].did = FirstInvocation.history[i].did)
    => (/\ result = FirstInvocation.result
        /\ Len(history) = Len(FirstInvocation.history))

C18_Witness ==
    /\ Len(prior) = 1
    /\ pc = "Success"
    /\ Len(history) = 2
    /\ RaisedRateLimit(history[1].did)
    /\ history[2].did.kind = "return"
    /\ InitialBudget("ratelimiterror") = 1
    /\ FirstInvocation.history = history
    /\ FirstInvocation.result = result

\* C19: the budget is read from the pool at the start of every invocation
\* and decremented in wrapper's local copy only: no step changes the budgets
\* the pool holds, every invocation starts with those budgets, which are the
\* ones the first invocation started with, and the pool changes only in a
\* step that calls rotate, by that service's current key moving on by one.
C19_BudgetFreshPerInvocation ==
    [][ /\ pool'.retries = pool.retries
        /\ (pc = "Init" /\ pc' = "Attempt")
             => (/\ retries_left' = pool.retries
                 /\ started # << >> => retries_left' = started[1])
        /\ pool' # pool
             => (/\ Len(rotations') = Len(rotations) + 1
                 /\ pool'.cursor =
                      [pool.cursor EXCEPT ![rotations'[Len(rotations')].service]
                                            = @ + 1]) ]_vars

C19_Witness ==
    /\ Len(prior) = 1
    /\ Len(FirstInvocation.history) = 3
    /\ FirstInvocation.result.kind = "raise"
    /\ InitialBudget("ratelimiterror") = 2
    /\ pool.cursor["ratelimiterror"] = 2
    /\ pc = "Attempt"
    /\ history = << >>
    /\ retries_left = pool.retries

\* C20: every invocation that is given a pool reaches a terminal state,
\* Success, Exhausted or OtherFailure, after at most one attempt more than
\* the sum of the budgets, and stays in it with the result it produced: no
\* execution goes on attempting and rotating forever.
C20_InvocationTerminates ==
    /\ HasPool => <>(pc \in {"Success", "Exhausted", "OtherFailure"})
    /\ [](Len(history) <= 1 + TotalBudget)
    /\ [][ (pc \in Terminal) => (pc' = pc /\ result' = result) ]_vars

C20_Witness ==
    /\ HasPool
    /\ pc = "Exhausted"
    /\ Len(history) = 5
    /\ \A i \in 1..5 : RaisedRateLimit(history[i].out)
    /\ result.kind = "raise"

\* The number of rotate calls made for service s in this invocation.
RECURSIVE RotationsFor(_, _)
RotationsFor(rots, s) ==
    IF rots = << >>
    THEN 0
    ELSE (IF rots[1].service = s THEN 1 ELSE 0) + RotationsFor(Tail(rots), s)

\* A step that takes the rate-limit branch: it records one more rotate call.
RateLimitedStep == Len(rotations') = Len(rotations) + 1

\* C21: each rate-limited step decrements the budget entry of exactly one
\* service by exactly 1, then calls rotate exactly once, for that service and
\* with the decrement already made, then goes on to the next attempt; and
\* whenever the invocation is between steps, the rotate calls made for a
\* service number its initial budget minus its remaining budget.
C21_DecrementThenRotate ==
    /\ [][ RateLimitedStep
           => \E s \in DOMAIN retries_left :
                /\ retries_left' = [retries_left EXCEPT ![s] = @ - 1]
                /\ rotations' = Append(rotations, rotations'[Len(rotations')])
                /\ rotations'[Len(rotations')].service = s
                /\ rotations'[Len(rotations')].left = retries_left'
                /\ Len(history') = Len(history) + 1
                /\ pc' = "Attempt" ]_vars
    /\ [](pc # "Init" =>
            \A s \in DOMAIN pool.retries :
              RotationsFor(rotations, s) = pool.retries[s] - retries_left[s])

C21_Witness ==
    /\ pc = "Attempt"
    /\ Len(rotations) = 3
    /\ RotationsFor(rotations, "ratelimiterror") = 2
    /\ RotationsFor(rotations, "valueerror") = 1
    /\ retries_left["ratelimiterror"] = 0
    /\ retries_left["valueerror"] = 1
    /\ rotations[3].left = retries_left

\* C22: in a rate-limited step the service whose budget is decremented and
\* which is passed to rotate is the lower-cased type name of the error the
\* attempt raised, whichever module and handler raised it; the budget
\* entries and the current credentials of all other services stay as they
\* were.
C22_ServiceIsErrorTypeName ==
    [][ RateLimitedStep
        => LET e == history'[Len(history')].out.exc
               s == Lower(e.cls)
           IN
           /\ rotations'[Len(rotations')].service = s
           /\ retries_left'[s] = retries_left[s] - 1
           /\ pool'.cursor[s] = pool.cursor[s] + 1
           /\ \A t \in DOMAIN retries_left \ {s} :
                retries_left'[t] = retries_left[t]
           /\ \A t \in DOMAIN pool.cursor \ {s} :
                pool'.cursor[t] = pool.cursor[t]
           /\ DOMAIN retries_left' = DOMAIN retries_left
           /\ pool'.retries = pool.retries ]_vars

C22_Witness ==
    /\ module = CCR
    /\ pc = "Attempt"
    /\ Len(history) = 1
    /\ history[1].out.handler = "get_all_charges"
    /\ history[1].out.exc.cls = "ValueError"
    /\ rotations[1].service = "valueerror"
    /\ DOMAIN pool.retries = {"ratelimiterror", "valueerror", "irys_wallet"}
    /\ retries_left["valueerror"] = pool.retries["valueerror"] - 1
    /\ retries_left["ratelimiterror"] = pool.retries["ratelimiterror"]
    /\ pool.cursor = [t \in DOMAIN pool.cursor |->
                        IF t = "valueerror" THEN 1 ELSE 0]

\* C23: every attempt of an invocation, the first and each retry, calls the
\* wrapped run with the keyword arguments the caller passed: the arguments
\* of attempt i are those of attempt 1 and those of the invocation, and no
\* step changes them.
C23_SameArgumentsEveryAttempt ==
    /\ [](\A i \in 1..Len(history) :
            /\ history[i].args = history[1].args
            /\ history[i].args = kwargs)
    /\ [][kwargs' = kwargs]_vars

C23_Witness ==
    /\ module = CCR
    /\ Len(history) = 3
    /\ Len(rotations) = 2
    /\ "api_key" \in DOMAIN kwargs
    /\ history[3].args = kwargs
    /\ history[3].out.handler = "create_charge"

\* C24: when two invocations on one pool are interleaved, a step of one
\* changes nothing the other holds, its remaining budget included; what
\* each has left of a service is that service's initial budget minus its own
\* rotations, so neither rotates more than the initial budget allows; and
\* the pool alone carries the effect of both: the current key of a service
\* has moved on once per rotation of either.
C24_InterleavedBudgetsAreOwn ==
    /\ [][ /\ peer' # peer
             => UNCHANGED << pc, retries_left, history, rotations, result >>
           /\ << pc, retries_left, history, rotations, result >>
                # << pc', retries_left', history', rotations', result' >>
             => peer' = peer ]_vars
    /\ [](\A s \in DOMAIN pool.retries :
            /\ pc # "Init"
                 => retries_left[s]
                      = pool.retries[s] - RotationsFor(rotations, s)
            /\ peer.pc \notin {"Idle", "Init"}
                 => peer.retries_left[s]
                      = pool.retries[s] - RotationsFor(peer.rotations, s)
            /\ RotationsFor(rotations, s) <= pool.retries[s]
            /\ RotationsFor(peer.rotations, s) <= pool.retries[s]
            /\ pool.cursor[s] = RotationsFor(rotations, s)
                                  + RotationsFor(peer.rotations, s))

C24_Witness ==
    /\ pc = "Exhausted"
    /\ peer.pc = "Attempt"
    /\ pool.retries["ratelimiterror"] = 2
    /\ RotationsFor(rotations, "ratelimiterror") = 2
    /\ RotationsFor(peer.rotations, "ratelimiterror") = 1
    /\ retries_left["ratelimiterror"] = 0
    /\ peer.retries_left["ratelimiterror"] = 1
    /\ pool.cursor["ratelimiterror"] = 3

\* C25: no step of any invocation adds, removes or rebinds an entry of the
\* module's registry: after any sequence of invocations, successful or
\* failing, its keys are the ones the module was loaded with, in the same
\* order, each bound to the same handler.
C25_RegistryNeverChanges ==
    /\ [][registry' = registry]_vars
    /\ [](module \in RegistryModules
            => (/\ Keys(registry) = Registry(module)
                /\ \A i \in DOMAIN registry :
                     registry[i].handler = Registry(module)[i]))

C25_Witness ==
    /\ module = CC
    /\ Len(prior) = 1
    /\ FirstInvocation.result.kind = "return"
    /\ FirstInvocation.history[1].out.handler = "creates a charge"
    /\ pc = "Exhausted"
    /\ Len(history) = 2
    /\ history[2].out.handler = "creates a charge"
    /\ Keys(registry) = AVAILABLE_TOOLS_CC

\* C26: within one invocation every budget entry stays between 0 and its
\* initial value, an entry is decremented only when it is strictly positive,
\* and the rotate calls for a service never exceed its initial budget.
C26_BudgetStaysInRange ==
    /\ [](pc # "Init"
            => (/\ DOMAIN retries_left = DOMAIN pool.retries
                /\ \A s \in DOMAIN retries_left :
                     /\ 0 <= retries_left[s]
                     /\ retries_left[s] <= pool.retries[s]
                     /\ RotationsFor(rotations, s) <= pool.retries[s]))
    /\ [][ \A s \in DOMAIN retries_left \cap DOMAIN retries_left' :
             retries_left'[s] # retries_left[s]
             => (retries_left[s] > 0 /\ retries_left'[s] < retries_left[s]) ]_vars

C26_Witness ==
    /\ pc = "Attempt"
    /\ DOMAIN pool.retries = {"valueerror", "irys_wallet"}
    /\ pool.retries["valueerror"] = 2
    /\ retries_left["valueerror"] = 0
    /\ RotationsFor(rotations, "valueerror") = 2
    /\ "irys_wallet" \in DOMAIN retries_left
    /\ retries_left["irys_wallet"] = pool.retries["irys_wallet"]

\* C27: a rate-limit error whose service has no entry in the budget map
\* ends the invocation in that attempt: the same error is raised to the
\* caller and no soft failure response is returned, rotate is not called for
\* it, and the budget map gets no entry for that service.
C27_MissingEntryIsZeroBudget ==
    \A i \in 1..Len(history) :
      (/\ RaisedRateLimit(history[i].out)
       /\ ErrService(history[i].out) \notin DOMAIN pool.retries)
      => (/\ i = Len(history)
          /\ pc = "Exhausted"
          /\ result = [kind |-> "raise", value |-> << >>,
                       exc |-> history[i].out.exc]
          /\ Len(rotations) = i - 1
          /\ RotationsFor(rotations, ErrService(history[i].out)) = 0
          /\ DOMAIN retries_left = DOMAIN pool.retries
          /\ ErrService(history[i].out) \notin DOMAIN retries_left)

C27_Witness ==
    /\ pc = "Exhausted"
    /\ DOMAIN pool.retries = {"ratelimiterror"}
    /\ Len(history) = 2
    /\ ErrService(history[1].out) = "ratelimiterror"
    /\ RaisedRateLimit(history[2].out)
    /\ ErrService(history[2].out) = "valueerror"
    /\ result.kind = "raise"
    /\ result.exc.cls = "ValueError"
    /\ Len(rotations) = 1

\* C28: an attempt made after k >= 1 rotations is classified like a first
\* attempt.  When it raises an error that is no rate-limit signal, the
\* invocation returns the soft failure response and the k rotations stand:
\* the pool keeps the keys they made current and the budget stays spent.
\* When it raises a rate-limit error with no budget left, that error leaves
\* the entry point as it is, through all the frames around it, and no
\* response is returned.  When it returns, the invocation succeeds.
C28_RetryClassifiedLikeFirstAttempt ==
    (pc \in Terminal /\ Len(rotations) >= 1)
    => (/\ Len(history) = Len(rotations) + 1
        /\ \A s \in DOMAIN pool.retries :
             /\ pool.cursor[s] = RotationsFor(rotations, s)
             /\ retries_left[s] = pool.retries[s] - RotationsFor(rotations, s)
        /\ (LastAttempt.out.kind = "raise" /\ ~RaisedRateLimit(LastAttempt.out))
             => (/\ pc = "OtherFailure"
                 /\ result = [kind |-> "return",
                              value |-> << PyStr(LastAttempt.out.exc.msg),
                                           PyStr(""), PyNone, PyNone, PyPool >>,
                              exc |-> NoExc])
        /\ RaisedRateLimit(LastAttempt.out)
             => (/\ pc = "Exhausted"
                 /\ Get(retries_left, ErrService(LastAttempt.out), 0) = 0
                 /\ result = [kind |-> "raise", value |-> << >>,
                              exc |-> LastAttempt.out.exc])
        /\ LastAttempt.out.kind = "return" => pc = "Success")

C28_Witness ==
    /\ pc = "Exhausted"
    /\ Len(rotations) = 1
    /\ rotations[1].service = "ratelimiterror"
    /\ pool.retries["ratelimiterror"] = 1
    /\ ErrService(LastAttempt.out) = "ratelimiterror"
    /\ result.kind = "raise"
    /\ pool.cursor["ratelimiterror"] = 1

\* C29: in coingecko_api every exception raised while a registered command
\* is dispatched, one with status_code 429 included, is caught inside run
\* and returned as ("An error occurred: " + str(error), None, None, None,
\* pool); so an invocation of this module that was given a pool makes one
\* attempt, never calls rotate, never decrements the budget and never
\* raises to the caller.
C29_MarketDataSwallowsErrors ==
    (module = CG /\ HasPool)
    => (/\ rotations = << >>
        /\ pc # "Init" => retries_left = pool.retries
        /\ result.kind # "raise"
        /\ pc \notin {"Exhausted", "InitFailed"}
        /\ Len(history) <= 1
        /\ \A i \in 1..Len(history) :
             history[i].did.kind = "raise"
             => (/\ history[i].out.kind = "return"
                 /\ result = [kind |-> "return",
                              value |-> << PyFmt("An error occurred: {str(e)}",
                                                 history[i].did.exc.msg, << >>),
                                           PyNone, PyNone, PyNone, PyPool >>,
                              exc |-> NoExc]))

C29_Witness ==
    /\ module = CG
    /\ HasPool
    /\ SuppliedName = PyStr("coins_list")
    /\ pc = "Success"
    /\ RaisedRateLimit(history[1].did)
    /\ InitialBudget(ErrService(history[1].did)) = 2
    /\ result.value[1].s = "An error occurred: {str(e)}"
    /\ rotations = << >>

\* The pool holds a wallet for the storage network.
HasWallet == "irys_wallet" \in DOMAIN pool.cursor

\* C30: irys_network validates in a fixed order.  Without an operation name
\* the answer is the missing-name message; with a name but without a wallet
\* it is "No wallet has been specified.", also when the name is unknown, and
\* no client has been built and no handler called; the unknown-command
\* message is given only after the wallet was found and the client built.
C30_StorageValidationOrder ==
    (module = IRYS /\ HasPool)
    => \A i \in 1..Len(history) :
         LET out == history[i].out IN
         /\ SuppliedName.type = "None"
              => (/\ out.value[1] = PyStr("No command has been specified.")
                  /\ ~out.client
                  /\ out.handler = "")
         /\ (SuppliedName.type = "str" /\ ~HasWallet)
              => (/\ out.value[1] = PyStr("No wallet has been specified.")
                  /\ ~out.client
                  /\ out.handler = "")
         /\ (SuppliedName.type = "str" /\ HasWallet) => out.client
         /\ (/\ SuppliedName.type = "str"
             /\ HasWallet
             /\ SuppliedName.s \notin SeqToSet(IrysCommands))
              => (/\ out.handler = ""
                  /\ \/ out.value[1]
                          = PyFmt("Command {command_name!r} is not in supported commands!",
                                  SuppliedName.s, << >>)
                     \/ out.value[1].s = "An error occurred: {str(e)}")
         /\ out.value[1].s = "Command {command_name!r} is not in supported commands!"
              => (HasWallet /\ out.client)
         /\ out.handler # "" => (HasWallet /\ out.client)

C30_Witness ==
    /\ module = IRYS
    /\ HasPool
    /\ ~HasWallet
    /\ SuppliedName = PyStr("bogus")
    /\ pc = "Success"
    /\ result.value[1] = PyStr("No wallet has been specified.")
    /\ ~history[1].out.client

\* C31: in irys_network_tool run calls the client constructor without a
\* wallet before it looks at the command name.  With an operation name
\* supplied, registered or not, the one attempt returns the response
\* ("An error occurred: " + the constructor's TypeError, None, None, None,
\* pool): no handler is called, the message "is not in supported commands!"
\* is never produced, nothing is rotated and nothing is raised.
C31_ToolClientFailsBeforeDispatch ==
    (module = IRYT /\ HasPool /\ SuppliedName.type = "str")
    => (/\ Len(history) <= 1
        /\ rotations = << >>
        /\ pc \notin {"Exhausted", "InitFailed"}
        /\ \A i \in 1..Len(history) :
             LET out == history[i].out IN
             /\ out.kind = "return"
             /\ out.client
             /\ out.handler = ""
             /\ history[i].did = NoCall
             /\ out.value[1].s = "An error occurred: {str(e)}"
             /\ out.value[1].arg
                  = "IrysNetworkClient.__init__() missing 1 required positional argument: 'wallet'"
             /\ out.value[1].s # "Command {command_name!r} is not in supported commands!"
             /\ out.value[2] = PyNone
        /\ pc = "Success"
             => result = [kind |-> "return",
                          value |-> << history[1].out.value[1],
                                       PyNone, PyNone, PyNone, PyPool >>,
                          exc |-> NoExc])

C31_Witness ==
    /\ module = IRYT
    /\ HasPool
    /\ SuppliedName = PyStr("address")
    /\ pc = "Success"
    /\ history[1].did = NoCall
    /\ result.value[1].s = "An error occurred: {str(e)}"
    /\ result.value[2] = PyNone

====
